---- MODULE Spec2Model ----
(***************************************************************************)
(* Model of src/app.py, the AI Expense Tracker Streamlit script.           *)
(*                                                                         *)
(* Text is modelled as a sequence of one-character strings, so that the    *)
(* string operations of the script (lower, strip, replace, the regular     *)
(* expression, float, the brace scan) are computed character by character. *)
(* Amounts are exact decimals held as integers in units of 1/Unit; a       *)
(* Python float is a record [k, v] whose kind k is "num", "nan" or "none"  *)
(* (Python's None).                                                        *)
(***************************************************************************)
EXTENDS Integers, Sequences, FiniteSets, TLC

VARIABLES
    file,       \* rows of transactions.xlsx; <<>> when the file does not exist
    df,         \* the script's DataFrame at the end of the last script run
    balance,    \* the script's balance at the end of the last script run
    sidebar,    \* the three metrics last drawn by update_sidebar
    messages,   \* st.session_state.messages
    outcome,    \* how the last script run ended
    turn,       \* the inputs of the last script run
    etext,      \* extract_first_json in isolation: its argument
    eresult,    \* extract_first_json in isolation: its result
    ninfo,      \* the normalisation block in isolation: the extracted "data"
    nuser,      \* the normalisation block in isolation: the user text
    nres        \* the normalisation block in isolation: its result

vars == <<file, df, balance, sidebar, messages, outcome, turn,
          etext, eresult, ninfo, nuser, nres>>

ledgerVars == <<file, df, balance, sidebar, messages, outcome, turn>>
extractVars == <<etext, eresult>>
normVars == <<ninfo, nuser, nres>>

----------------------------------------------------------------------------
(* Bounds *)

\* longest text handed to extract_first_json in isolation
MaxTextLen == 6
\* longest user text handed to the normalisation block in isolation
MaxUserLen == 3
\* most rows the file holds before the model stops taking messages
MaxRows == 2
\* most entries of the session history before the model stops taking messages
MaxHistory == 3

\* one currency unit, as a count of the smallest decimal step a text can spell
Unit == 10 ^ MaxUserLen

----------------------------------------------------------------------------
(* Python values *)

FNum(v) == [k |-> "num", v |-> v]
FNaN == [k |-> "nan", v |-> 0]
FNone == [k |-> "none", v |-> 0]

\* JSON values as json.loads builds them: k is the Python type
JNull == [k |-> "null", s |-> <<>>, n |-> 0, m |-> <<>>]
JStr(s) == [k |-> "str", s |-> s, n |-> 0, m |-> <<>>]
JNum(n) == [k |-> "num", s |-> <<>>, n |-> n, m |-> <<>>]
JNaN == [k |-> "nan", s |-> <<>>, n |-> 0, m |-> <<>>]
JObj(m) == [k |-> "dict", s |-> <<>>, n |-> 0, m |-> m]
Member(key, val) == [key |-> key, val |-> val]

\* the value None, where a JSON value or nothing is expected
None == [ok |-> FALSE, val |-> JNull]
Some(v) == [ok |-> TRUE, val |-> v]

\* dict.get(key, default): the last member with that key, else the default
DictGet(obj, key, default) ==
    LET hits == {i \in 1..Len(obj.m) : obj.m[i].key = key}
    IN  IF hits = {} THEN default
        ELSE obj.m[CHOOSE i \in hits : \A j \in hits : j <= i].val

\* Python's truth value of a JSON value (the `or` of line 111)
Truthy(v) ==
    CASE v.k = "null" -> FALSE
      [] v.k = "str" -> v.s # <<>>
      [] v.k = "num" -> v.n # 0
      [] v.k = "dict" -> v.m # <<>>
      [] OTHER -> TRUE

----------------------------------------------------------------------------
(* str methods *)

Whitespace == {" ", "\t", "\n"}
UpperCase == <<"A", "B", "C", "D", "E", "F", "G", "H", "I", "J", "K", "L", "M",
               "N", "O", "P", "Q", "R", "S", "T", "U", "V", "W", "X", "Y", "Z">>
LowerCase == <<"a", "b", "c", "d", "e", "f", "g", "h", "i", "j", "k", "l", "m",
               "n", "o", "p", "q", "r", "s", "t", "u", "v", "w", "x", "y", "z">>

LowerChar(c) ==
    IF \E i \in 1..Len(UpperCase) : UpperCase[i] = c
    THEN LowerCase[CHOOSE i \in 1..Len(UpperCase) : UpperCase[i] = c]
    ELSE c

\* str.lower()
Lower(s) == [i \in 1..Len(s) |-> LowerChar(s[i])]

\* str.strip()
Strip(s) ==
    LET keep == {i \in 1..Len(s) : s[i] \notin Whitespace}
    IN  IF keep = {} THEN <<>>
        ELSE SubSeq(s, CHOOSE i \in keep : \A j \in keep : i <= j,
                       CHOOSE i \in keep : \A j \in keep : j <= i)

\* str.replace(",", "")
RemoveCommas(s) == SelectSeq(s, LAMBDA c : c # ",")

Digits == {"0", "1", "2", "3", "4", "5", "6", "7", "8", "9"}

DigitVal(c) ==
    CASE c = "0" -> 0 [] c = "1" -> 1 [] c = "2" -> 2 [] c = "3" -> 3
      [] c = "4" -> 4 [] c = "5" -> 5 [] c = "6" -> 6 [] c = "7" -> 7
      [] c = "8" -> 8 [] c = "9" -> 9


DigitsVal(s) ==
    LET RECURSIVE V(_)
        V(n) == IF n = 0 THEN 0 ELSE 10 * V(n - 1) + DigitVal(s[n])
    IN  V(Len(s))

\* the value of a decimal spelled intpart[.fracpart], in units of 1/Unit
DecimalVal(ip, fp) ==
    DigitsVal(ip) * Unit + (DigitsVal(fp) * Unit) \div (10 ^ Len(fp))

\* float(s) for a str: surrounding whitespace, an optional minus sign, then
\* digits with at most one point and at least one digit, or the word nan;
\* anything else is a ValueError, which is FNone here (line 119 turns it into
\* None).  Exponents, inf, underscores and a plus sign are not in the alphabet.
PyFloatStr(s) ==
    LET t == Lower(Strip(s))
        neg == t # <<>> /\ t[1] = "-"
        u == IF neg THEN SubSeq(t, 2, Len(t)) ELSE t
        dots == {i \in 1..Len(u) : u[i] = "."}
        ip == IF dots = {} THEN u ELSE SubSeq(u, 1, (CHOOSE i \in dots : TRUE) - 1)
        fp == IF dots = {} THEN <<>>
              ELSE SubSeq(u, (CHOOSE i \in dots : TRUE) + 1, Len(u))
    IN  IF u = <<"n", "a", "n">> THEN FNaN
        ELSE IF /\ Cardinality(dots) <= 1
                /\ Len(ip) + Len(fp) >= 1
                /\ \A i \in 1..Len(ip) : ip[i] \in Digits
                /\ \A i \in 1..Len(fp) : fp[i] \in Digits
             THEN FNum((IF neg THEN -1 ELSE 1) * DecimalVal(ip, fp))
             ELSE FNone

\* float(amount_raw) inside try/except (ValueError, TypeError), lines 117-120
PyFloat(v) ==
    CASE v.k = "num" -> FNum(v.n)
      [] v.k = "nan" -> FNaN
      [] v.k = "str" -> PyFloatStr(v.s)
      [] OTHER -> FNone

\* re.findall(r"\d+\.?\d*", s), first element: the match starts at the first
\* digit, takes the digits that follow, then one point if there is one, then
\* the digits that follow it.  <<>> when the list of matches is empty.
RECURSIVE DigitRunEnd(_, _)
DigitRunEnd(s, i) ==
    IF i <= Len(s) /\ s[i] \in Digits THEN DigitRunEnd(s, i + 1) ELSE i

RECURSIVE FirstDigit(_, _)
FirstDigit(s, i) ==
    IF i > Len(s) THEN 0
    ELSE IF s[i] \in Digits THEN i
    ELSE FirstDigit(s, i + 1)

FirstNumberMatch(s) ==
    LET b == FirstDigit(s, 1)
        e1 == DigitRunEnd(s, b)
        e2 == IF e1 <= Len(s) /\ s[e1] = "." THEN e1 + 1 ELSE e1
        e3 == DigitRunEnd(s, e2)
    IN  IF b = 0 THEN <<>> ELSE SubSeq(s, b, e3 - 1)

----------------------------------------------------------------------------
(* The AI response *)

K_data == <<"d", "a", "t", "a">>
K_reply == <<"r", "e", "p", "l", "y">>
K_type == <<"t", "y", "p", "e">>
K_amount == <<"a", "m", "o", "u", "n", "t">>
K_category == <<"c", "a", "t", "e", "g", "o", "r", "y">>
K_description == <<"d", "e", "s", "c", "r", "i", "p", "t", "i", "o", "n">>

S_income == <<"i", "n", "c", "o", "m", "e">>
S_expense == <<"e", "x", "p", "e", "n", "s", "e">>
S_other == <<"o", "t", "h", "e", "r">>
S_food == <<"f", "o", "o", "d">>

\* A response is a sequence of characters.  A member token stands for the
\* text of a whole member list ("data": {...}, "reply": "..."), whose inner
\* braces are balanced and so leave the brace scan where it was; MemberList
\* is what json.loads makes of that text.
MemberTokens == {"M_expense", "M_income", "M_transfer", "M_negative", "M_nan",
                 "M_nullcat", "M_emptycat", "M_nodata", "M_strdata"}

MemberList(tok) ==
    CASE tok = "M_expense" ->
           <<Member(K_data, JObj(<<Member(K_type, JStr(S_expense)),
                                   Member(K_amount, JNum(3 * Unit)),
                                   Member(K_category, JStr(<<" ">> \o S_food \o <<" ">>)),
                                   Member(K_description, JStr(<<"s", " ">>))>>)),
             Member(K_reply, JStr(<<"G", "o", "t">>))>>
      [] tok = "M_income" ->
           <<Member(K_data, JObj(<<Member(K_type, JStr(<<" ", "I", "n", "c", "o", "m", "e">>))>>))>>
      [] tok = "M_transfer" ->
           <<Member(K_data, JObj(<<Member(K_type, JStr(<<"t", "r", "a", "n", "s", "f", "e", "r">>)),
                                   Member(K_amount, JNum(3 * Unit))>>))>>
      [] tok = "M_negative" ->
           <<Member(K_data, JObj(<<Member(K_type, JStr(S_expense)),
                                   Member(K_amount, JNum(-3 * Unit))>>))>>
      [] tok = "M_nan" ->
           <<Member(K_data, JObj(<<Member(K_type, JStr(S_expense)),
                                   Member(K_amount, JStr(<<"n", "a", "n">>))>>))>>
      [] tok = "M_nullcat" ->
           <<Member(K_data, JObj(<<Member(K_type, JStr(S_expense)),
                                   Member(K_amount, JNum(3 * Unit)),
                                   Member(K_category, JNull)>>))>>
      [] tok = "M_emptycat" ->
           <<Member(K_data, JObj(<<Member(K_type, JStr(S_income)),
                                   Member(K_amount, JStr(<<"5">>)),
                                   Member(K_category, JStr(<<>>)),
                                   Member(K_description, JStr(<<>>))>>))>>
      [] tok = "M_nodata" ->
           <<Member(K_reply, JStr(<<"G", "o", "t">>))>>
      [] tok = "M_strdata" ->
           <<Member(K_data, JStr(<<"x">>))>>

\* json.loads on a span of the response, for the JSON this alphabet can spell:
\*   value   ::= string | object
\*   string  ::= '"' any characters but '"' '"'
\*   object  ::= '{' '}' | '{' members '}'
\*   members ::= member | member ',' members
\*   member  ::= string ':' value | a member token
\* ok is FALSE where json.loads raises JSONDecodeError.
ParseFail == [ok |-> FALSE, next |-> 0, val |-> JNull]

ParseString(s, i) ==
    LET closes == {j \in (i + 1)..Len(s) : s[j] = "\""}
        j == CHOOSE c \in closes : \A d \in closes : c <= d
    IN  IF i > Len(s) \/ s[i] # "\"" \/ closes = {} THEN ParseFail
        ELSE [ok |-> TRUE, next |-> j + 1, val |-> JStr(SubSeq(s, i + 1, j - 1))]

RECURSIVE ParseValue(_, _)
RECURSIVE ParseMembers(_, _, _)

ParseMembers(s, i, acc) ==
    LET key == ParseString(s, i)
        v == ParseValue(s, key.next + 1)
        one == IF i <= Len(s) /\ s[i] \in MemberTokens
               THEN [ok |-> TRUE, next |-> i + 1, ms |-> MemberList(s[i])]
               ELSE IF key.ok /\ key.next <= Len(s) /\ s[key.next] = ":" /\ v.ok
               THEN [ok |-> TRUE, next |-> v.next, ms |-> <<Member(key.val.s, v.val)>>]
               ELSE [ok |-> FALSE, next |-> 0, ms |-> <<>>]
    IN  IF ~one.ok \/ one.next > Len(s) THEN ParseFail
        ELSE IF s[one.next] = "}"
        THEN [ok |-> TRUE, next |-> one.next + 1, val |-> JObj(acc \o one.ms)]
        ELSE IF s[one.next] = ","
        THEN ParseMembers(s, one.next + 1, acc \o one.ms)
        ELSE ParseFail

ParseValue(s, i) ==
    IF i > Len(s) THEN ParseFail
    ELSE IF s[i] = "\"" THEN ParseString(s, i)
    ELSE IF s[i] = "{"
    THEN IF i + 1 <= Len(s) /\ s[i + 1] = "}"
         THEN [ok |-> TRUE, next |-> i + 2, val |-> JObj(<<>>)]
         ELSE ParseMembers(s, i + 1, <<>>)
    ELSE ParseFail

JsonLoads(s) ==
    LET r == ParseValue(s, 1)
    IN  IF r.ok /\ r.next = Len(s) + 1 THEN Some(r.val) ELSE None

----------------------------------------------------------------------------
(* extract_first_json, lines 51-71 *)

\* extract_first_json as it would be without the depth bookkeeping: every '{'
\* restarts the span and every '}' closes it
RECURSIVE ScanNoDepth(_, _, _, _)
ScanNoDepth(text, i, stack, start_idx) ==
    IF i > Len(text) THEN None
    ELSE IF text[i] = "{" THEN ScanNoDepth(text, i + 1, stack, i)
    ELSE IF text[i] = "}" /\ start_idx # 0
    THEN JsonLoads(SubSeq(text, start_idx, i))
    ELSE ScanNoDepth(text, i + 1, stack, start_idx)

\* extract_first_json as it would be if a span that fails to parse were skipped
\* and the scan went on to the next candidate
RECURSIVE ScanRetry(_, _, _, _)
ScanRetry(text, i, stack, start_idx) ==
    IF i > Len(text) THEN None
    ELSE IF text[i] = "{"
    THEN ScanRetry(text, i + 1, Append(stack, "{"),
                   IF stack = <<>> THEN i ELSE start_idx)
    ELSE IF text[i] = "}" /\ stack # <<>>
    THEN LET popped == SubSeq(stack, 1, Len(stack) - 1)
         IN  IF popped = <<>> /\ start_idx # 0
                /\ JsonLoads(SubSeq(text, start_idx, i)).ok
             THEN JsonLoads(SubSeq(text, start_idx, i))
             ELSE ScanRetry(text, i + 1, popped, start_idx)
    ELSE ScanRetry(text, i + 1, stack, start_idx)

\* the body of the for loop from index i on (1-based; start_idx 0 is None)
RECURSIVE ScanFrom(_, _, _, _)
ScanFrom(text, i, stack, start_idx) ==
    IF i > Len(text) THEN None
    ELSE IF text[i] = "{"
    THEN ScanFrom(text, i + 1, Append(stack, "{"),
                  IF stack = <<>> THEN i ELSE start_idx)
    ELSE IF text[i] = "}" /\ stack # <<>>
    THEN LET popped == SubSeq(stack, 1, Len(stack) - 1)
         IN  IF popped = <<>> /\ start_idx # 0
             THEN JsonLoads(SubSeq(text, start_idx, i))
             ELSE ScanFrom(text, i + 1, popped, start_idx)
    ELSE ScanFrom(text, i + 1, stack, start_idx)

ExtractFirstJson(text) == ScanFrom(text, 1, <<>>, 0)

----------------------------------------------------------------------------
(* extract_first_json on its own: every text up to MaxTextLen characters *)

ExtractChars == {"{", "}", "\"", ":", "x", "M_nodata"}

Texts(alphabet, n) == UNION {[1..k -> alphabet] : k \in 0..n}

Pending == [done |-> FALSE, r |-> None]

ExtractInit ==
    /\ etext \in Texts(ExtractChars, MaxTextLen)
    /\ eresult = Pending

Extract ==
    /\ ~eresult.done
    /\ eresult' = [done |-> TRUE, r |-> ExtractFirstJson(etext)]
    /\ UNCHANGED etext

----------------------------------------------------------------------------
(* PARSE TRANSACTION SAFELY, lines 107-129 *)

\* (info.get("type") or ""), line 111, before .lower().strip()
TypeOperand(info) ==
    LET v == DictGet(info, K_type, JNull)
    IN  IF Truthy(v) THEN v ELSE JStr(<<>>)

CategoryOperand(info) == DictGet(info, K_category, JStr(S_other))

DescriptionOperand(info) == DictGet(info, K_description, JStr(<<>>))

\* lines 111-114 raise AttributeError when info has no .get, or when the
\* operand of .lower() or .strip() is not a str
ParseRaises(info) ==
    \/ info.k # "dict"
    \/ TypeOperand(info).k # "str"
    \/ CategoryOperand(info).k # "str"
    \/ DescriptionOperand(info).k # "str"

\* lines 112 and 117-120
CoercedAmount(info) == PyFloat(DictGet(info, K_amount, JNull))

\* the fallback as it would be without .replace(",", "")
FallbackKeepsCommas(amount, user_input) ==
    LET numbers0 == FirstNumberMatch(user_input)
    IN  IF amount.k = "none" /\ numbers0 # <<>> THEN PyFloatStr(numbers0) ELSE amount

\* lines 123-126
FallbackAmount(amount, user_input) ==
    LET numbers0 == FirstNumberMatch(RemoveCommas(user_input))
    IN  IF amount.k = "none" /\ numbers0 # <<>> THEN PyFloatStr(numbers0) ELSE amount

\* the condition of line 129 as it would be without `amount <= 0`
InvalidIgnoresSign(t_type, amount) ==
    \/ t_type \notin {S_income, S_expense}
    \/ amount.k = "none"

\* the condition of line 129; a comparison with nan is False
Invalid(t_type, amount) ==
    \/ t_type \notin {S_income, S_expense}
    \/ amount.k = "none"
    \/ (amount.k = "num" /\ amount.v <= 0)

Normalize(info, user_input) ==
    IF ParseRaises(info)
    THEN [status |-> "raise", t_type |-> <<>>, amount |-> FNone,
          category |-> <<>>, desc |-> <<>>]
    ELSE LET t_type == Strip(Lower(TypeOperand(info).s))
             amount == FallbackAmount(CoercedAmount(info), user_input)
         IN  [status |-> IF Invalid(t_type, amount) THEN "invalid" ELSE "ok",
              t_type |-> t_type,
              amount |-> amount,
              category |-> Strip(CategoryOperand(info).s),
              desc |-> Strip(DescriptionOperand(info).s)]

----------------------------------------------------------------------------
(* The ledger: DATA HANDLING lines 18-23, update_sidebar lines 41-46 *)

\* an empty spreadsheet cell as pandas reads it
NaNCell == <<"NaN">>

\* df.to_excel: a missing text value is written as an empty cell
WriteExcel(d) ==
    [i \in 1..Len(d) |->
        [d[i] EXCEPT !.Category = IF @ = NaNCell THEN <<>> ELSE @,
                     !.Description = IF @ = NaNCell THEN <<>> ELSE @]]

\* pd.read_excel: an empty text cell is read as NaN
ReadExcel(rows) ==
    [i \in 1..Len(rows) |->
        [rows[i] EXCEPT !.Category = IF @ = <<>> THEN NaNCell ELSE @,
                        !.Description = IF @ = <<>> THEN NaNCell ELSE @]]

\* line 23
SeedBalance(d) == IF d = <<>> THEN FNum(0) ELSE d[Len(d)].Balance

FAdd(a, b) == IF a.k = "nan" \/ b.k = "nan" THEN FNaN ELSE FNum(a.v + b.v)
FSub(a, b) == IF a.k = "nan" \/ b.k = "nan" THEN FNaN ELSE FNum(a.v - b.v)

\* df[df["Type"] == type]["Amount"].sum(): pandas leaves NaN out of a sum
RECURSIVE SumAmount(_, _)
SumAmount(d, type) ==
    IF d = <<>> THEN 0
    ELSE LET last == d[Len(d)]
         IN  SumAmount(SubSeq(d, 1, Len(d) - 1), type)
             + (IF last.Type = type /\ last.Amount.k = "num" THEN last.Amount.v ELSE 0)

UpdateSidebar(d, b) ==
    [balance |-> b,
     total_income |-> SumAmount(d, S_income),
     total_expense |-> SumAmount(d, S_expense)]

\* lines 138-141 as they would be if the balance were added to whatever the type
NewBalanceAlwaysAdds(b, t_type, amount) == FAdd(b, amount)

\* lines 138-141
NewBalance(b, t_type, amount) ==
    IF t_type = S_income THEN FAdd(b, amount) ELSE FSub(b, amount)

\* lines 144-150
NewRow(t_type, category, amount, b, desc) ==
    [Type |-> t_type, Category |-> category, Amount |-> amount,
     Balance |-> b, Description |-> desc]

----------------------------------------------------------------------------
(* One script run *)

UserMessage(user_input) ==
    [role |-> "user", kind |-> "text", text |-> user_input,
     reply |-> JNull, balance |-> FNone]

\* lines 131-134
WarningMessage ==
    [role |-> "assistant", kind |-> "amount-warning", text |-> <<>>,
     reply |-> JNull, balance |-> FNone]

\* lines 155-157
AiMessage(reply, b) ==
    [role |-> "assistant", kind |-> "recorded", text |-> <<>>,
     reply |-> reply, balance |-> b]

DefaultReply == JStr(<<"Transaction recorded!">>)

NoTurn ==
    [user_input |-> <<>>, response |-> [throws |-> FALSE, text |-> <<>>],
     write_ok |-> TRUE]

\* the run ends with the ledger as it was loaded (lines 18-23 and 48)
EndsAsLoaded ==
    /\ df' = ReadExcel(file)
    /\ balance' = SeedBalance(ReadExcel(file))
    /\ sidebar' = UpdateSidebar(ReadExcel(file), SeedBalance(ReadExcel(file)))
    /\ file' = file

\* the except branch, lines 161-162, taken before anything was computed
Fail(user_input) ==
    /\ EndsAsLoaded
    /\ messages' = Append(messages, UserMessage(user_input))
    /\ outcome' = "Failed"

\* lines 130-135: the warning, then st.stop()
Reject(user_input) ==
    /\ EndsAsLoaded
    /\ messages' = messages \o <<UserMessage(user_input), WarningMessage>>
    /\ outcome' = "Rejected"

\* lines 151-159: df.to_excel either writes the file or raises before writing
\* (the file cannot be opened), and the except branch of line 161 leaves df
\* and balance as lines 139-151 set them
Save(user_input, reply, df0, df1, balance1, write_ok) ==
    /\ df' = df1
    /\ balance' = balance1
    /\ IF write_ok
       THEN /\ file' = WriteExcel(df1)
            /\ sidebar' = UpdateSidebar(df1, balance1)
            /\ messages' = messages \o <<UserMessage(user_input),
                                        AiMessage(reply, balance1)>>
            /\ outcome' = "Recorded"
       ELSE /\ file' = file
            /\ sidebar' = UpdateSidebar(df0, SeedBalance(df0))
            /\ messages' = Append(messages, UserMessage(user_input))
            /\ outcome' = "Failed"

\* lines 144-151
AppendRow(user_input, reply, n, df0, balance1, write_ok) ==
    Save(user_input, reply, df0,
         Append(df0, NewRow(n.t_type, n.category, n.amount, balance1, n.desc)),
         balance1, write_ok)

\* lines 129-141, n being what lines 111-126 computed
Settle(user_input, reply, n, df0, write_ok) ==
    IF n.status = "raise" THEN Fail(user_input)
    ELSE IF n.status = "invalid" THEN Reject(user_input)
    ELSE AppendRow(user_input, reply, n, df0,
                   NewBalance(SeedBalance(df0), n.t_type, n.amount), write_ok)

\* lines 104-108, data being what extract_first_json returned
Extracted(user_input, data, write_ok) ==
    IF ~data.ok THEN Fail(user_input)
    ELSE Settle(user_input,
                DictGet(data.val, K_reply, DefaultReply),
                Normalize(DictGet(data.val, K_data, JObj(<<>>)), user_input),
                ReadExcel(file), write_ok)

\* lines 80-162 for one user message: the text typed, what
\* model.generate_content does, and whether df.to_excel can write the file
Handle(user_input, response, write_ok) ==
    /\ turn' = [user_input |-> user_input, response |-> response,
                write_ok |-> write_ok]
    /\ IF response.throws THEN Fail(user_input)
       ELSE Extracted(user_input, ExtractFirstJson(response.text), write_ok)

UserTexts == {<<"g", "y", "m">>, <<"f", "o", "r", " ", "$", "8", "0">>}

ResponseTexts ==
    {<<"x", "{", m, "}", "x">> : m \in MemberTokens}
    \cup {<<"x">>, <<"{", "x", "}">>, <<"}", "{", "M_expense", "}", "{">>}

AIResponses ==
    {[throws |-> TRUE, text |-> <<>>]}
    \cup {[throws |-> FALSE, text |-> t] : t \in ResponseTexts}

HandleMessage ==
    /\ Len(file) < MaxRows
    /\ Len(messages) < MaxHistory
    /\ \E user_input \in UserTexts, response \in AIResponses, write_ok \in BOOLEAN :
          Handle(user_input, response, write_ok)
    /\ UNCHANGED <<extractVars, normVars>>

\* a script run with no chat input (a widget interaction, a page refresh)
Rerun ==
    /\ EndsAsLoaded
    /\ outcome' = "Idle"
    /\ turn' = NoTurn
    /\ UNCHANGED <<messages, extractVars, normVars>>

\* a new browser session: the history starts empty (lines 31-32)
NewSession ==
    /\ EndsAsLoaded
    /\ messages' = <<>>
    /\ outcome' = "Idle"
    /\ turn' = NoTurn
    /\ UNCHANGED <<extractVars, normVars>>

LedgerInit ==
    /\ file = <<>>
    /\ df = <<>>
    /\ balance = FNum(0)
    /\ sidebar = UpdateSidebar(<<>>, FNum(0))
    /\ messages = <<>>
    /\ outcome = "Idle"
    /\ turn = NoTurn

ExtractIdle == etext = <<>> /\ eresult = Pending

NormPending == [done |-> FALSE, r |-> Normalize(JNull, <<>>)]

NormIdle == ninfo = JNull /\ nuser = <<>> /\ nres = NormPending

Init == LedgerInit /\ ExtractIdle /\ NormIdle

Next == HandleMessage \/ Rerun \/ NewSession

Spec == Init /\ [][Next]_vars

----------------------------------------------------------------------------
(* extract_first_json applied to each text *)

ExtractStep == Extract /\ UNCHANGED <<ledgerVars, normVars>>

InitExtract == LedgerInit /\ ExtractInit /\ NormIdle

SpecExtract == InitExtract /\ [][ExtractStep]_vars

----------------------------------------------------------------------------
(* Lines 107-129 applied to each extracted record and user text *)

UserChars == {"3", "0", ".", ",", "x"}

Opt(key, o) == IF o.ok THEN <<Member(key, o.val)>> ELSE <<>>

\* None is an absent key
TypeValues ==
    {None, Some(JNull), Some(JStr(S_income)),
     Some(JStr(<<" ", "E", "X", "P", "E", "N", "S", "E", "\n">>)),
     Some(JStr(<<"t", "a", "x">>)), Some(JNum(5 * Unit))}

AmountValues ==
    {None, Some(JNull), Some(JNum(3 * Unit)), Some(JNum(0)), Some(JNum(-Unit)),
     Some(JStr(<<" ", "8", ".", "5">>)), Some(JStr(<<"a", "b">>)),
     Some(JStr(<<"N", "a", "N">>)), Some(JObj(<<>>))}

CategoryValues ==
    {None, Some(JNull), Some(JStr(<<>>)), Some(JStr(<<" ">>)),
     Some(JStr(<<" ">> \o S_food \o <<" ">>))}

DescriptionValues == {None, Some(JNull), Some(JStr(<<"s", " ">>))}

Infos ==
    {JObj(Opt(K_type, t) \o Opt(K_amount, a) \o Opt(K_category, c)
          \o Opt(K_description, d)) :
        t \in TypeValues, a \in AmountValues, c \in CategoryValues,
        d \in DescriptionValues}
    \cup {JNull, JStr(<<"x">>)}

NormalizeInit ==
    /\ ninfo \in Infos
    /\ nuser \in Texts(UserChars, MaxUserLen)
    /\ nres = NormPending

NormalizeStep ==
    /\ ~nres.done
    /\ nres' = [done |-> TRUE, r |-> Normalize(ninfo, nuser)]
    /\ UNCHANGED <<ninfo, nuser, ledgerVars, extractVars>>

InitNormalize == LedgerInit /\ ExtractIdle /\ NormalizeInit

SpecNormalize == InitNormalize /\ [][NormalizeStep]_vars

----------------------------------------------------------------------------
(* Helpers of the properties *)

IsHandled == outcome \in {"Recorded", "Rejected", "Failed"}

\* what extract_first_json and line 107 gave for the last message
TurnData == ExtractFirstJson(turn.response.text)
TurnInfo == DictGet(TurnData.val, K_data, JObj(<<>>))

AllowedTypes == {S_income, S_expense}

\* the balance a row must carry given the balance before it
RowBalance(prev, row) ==
    IF row.Type = S_income THEN FAdd(prev, row.Amount) ELSE FSub(prev, row.Amount)

Chained(d) ==
    \A i \in 1..Len(d) :
        /\ d[i].Type \in AllowedTypes
        /\ d[i].Balance = RowBalance(IF i = 1 THEN FNum(0) ELSE d[i - 1].Balance, d[i])

CountIn(t, c, a, b) == Cardinality({k \in a..b : t[k] = c})

\* the first '{' of the text, 0 when there is none
FirstOpen(t) ==
    LET opens == {i \in 1..Len(t) : t[i] = "{"}
    IN  IF opens = {} THEN 0 ELSE CHOOSE i \in opens : \A j \in opens : i <= j

\* the first position at which the braces counted from the first '{' are as
\* many '}' as '{'; 0 when there is none
FirstClose(t) ==
    LET f == FirstOpen(t)
        ends == {j \in f..Len(t) : CountIn(t, "{", f, j) = CountIn(t, "}", f, j)}
    IN  IF f = 0 \/ ends = {} THEN 0 ELSE CHOOSE j \in ends : \A e \in ends : j <= e

\* the brace-delimited substrings that are well-formed JSON objects
WellFormedSpans(t) ==
    {p \in (1..Len(t)) \X (1..Len(t)) :
        /\ p[1] < p[2]
        /\ t[p[1]] = "{"
        /\ t[p[2]] = "}"
        /\ JsonLoads(SubSeq(t, p[1], p[2])).ok}

FirstWellFormed(t) ==
    LET spans == WellFormedSpans(t)
        p == CHOOSE q \in spans : \A r \in spans :
                 q[1] < r[1] \/ (q[1] = r[1] /\ q[2] <= r[2])
    IN  SubSeq(t, p[1], p[2])

\* every brace has a partner
BracesBalanced(t) ==
    /\ CountIn(t, "{", 1, Len(t)) = CountIn(t, "}", 1, Len(t))
    /\ \A j \in 1..Len(t) : CountIn(t, "{", 1, j) >= CountIn(t, "}", 1, j)

\* digits, then optionally a point and further digits
IsDecimalSpelling(s) ==
    \E a \in 1..Len(s) :
        /\ \A i \in 1..a : s[i] \in Digits
        /\ \/ a = Len(s)
           \/ s[a + 1] = "." /\ \A i \in (a + 2)..Len(s) : s[i] \in Digits

\* the first unsigned decimal number of a text, <<>> when there is none
FirstDecimal(t) ==
    LET starts == {i \in 1..Len(t) : t[i] \in Digits}
        b == CHOOSE i \in starts : \A j \in starts : i <= j
        ends == {e \in b..Len(t) : IsDecimalSpelling(SubSeq(t, b, e))}
    IN  IF starts = {} THEN <<>>
        ELSE SubSeq(t, b, CHOOSE e \in ends : \A f \in ends : f <= e)

----------------------------------------------------------------------------
(* Properties *)

\* C1: every row of the log carries the balance of the row before it (0 before
\* the first row) plus its amount when its type is income and minus its amount
\* when its type is expense; this holds of the log in memory, which starts each
\* run as the rows loaded from the file, and of the file.
C1_BalanceAdditive == Chained(df) /\ Chained(file)

\* an income of 80 then an expense of 3, from an empty ledger: balances 80, 77
C1_Witness ==
    /\ outcome = "Recorded"
    /\ Len(df) = 2
    /\ df[1].Type = S_income /\ df[1].Balance = FNum(80 * Unit)
    /\ df[2].Type = S_expense /\ df[2].Balance = FNum(77 * Unit)
    /\ file = WriteExcel(df)

\* the last message reached the condition of line 129 and met it: the type,
\* lowercased and trimmed, is not income or expense, or the amount is missing
\* or <= 0 after the fallback parse of the user text
ValidationFailed ==
    /\ IsHandled
    /\ ~turn.response.throws
    /\ TurnData.ok
    /\ ~ParseRaises(TurnInfo)
    /\ LET kind == Strip(Lower(TypeOperand(TurnInfo).s))
           amount == FallbackAmount(CoercedAmount(TurnInfo), turn.user_input)
       IN  \/ kind \notin AllowedTypes
           \/ amount.k = "none"
           \/ amount.k = "num" /\ amount.v <= 0

C3_FailedLeavesLedger ==
    [][outcome' = "Failed" =>
          /\ file' = file
          /\ df' = ReadExcel(file)
          /\ balance' = SeedBalance(ReadExcel(file))]_vars

\* C4: every row stored in the file, and every row of the log after a
\* recorded message, has a numeric amount > 0 and the type income or expense.
C4_StoredAmountsPositive ==
    \A d \in {file} \cup (IF outcome = "Recorded" THEN {df} ELSE {}) :
        \A i \in 1..Len(d) :
            /\ d[i].Amount.k = "num"
            /\ d[i].Amount.v > 0
            /\ d[i].Type \in AllowedTypes

\* C5: from one script run to the next every row of the log stays where it is
\* with the values it has; the log changes only by gaining a row at its end.
C5_AppendOnly ==
    [][/\ \A i \in 1..Len(df) : i <= Len(df') /\ df'[i] = df[i]
       /\ Len(df') <= Len(df) + 1]_vars

C7_UnbalancedGivesNull ==
    (eresult.done /\ (~BracesBalanced(etext) \/ CountIn(etext, "{", 1, Len(etext)) = 0))
        => eresult.r = None

\* C7 as amended: a text with no '{', or whose first '{' is never closed,
\* gives null.
C7_UnclosedGivesNull ==
    (eresult.done /\ FirstClose(etext) = 0) => eresult.r = None

\* an inner object is closed, the first '{' is not
C7_Witness ==
    /\ eresult.done
    /\ FirstOpen(etext) # 0
    /\ FirstClose(etext) = 0
    /\ \E j \in (FirstOpen(etext) + 1)..Len(etext) : etext[j] = "}"
    /\ eresult.r = None

\* C8: when float() takes the extracted amount, the amount is its value and
\* the user text plays no part; when the amount is absent or float() refuses
\* it, the amount is the first unsigned decimal number of the user text with
\* its commas removed, and None when the text holds no digit.
C8_AmountFallback ==
    (nres.done /\ nres.r.status # "raise") =>
        LET raw == DictGet(ninfo, K_amount, JNull)
            coercible == \/ raw.k \in {"num", "nan"}
                         \/ raw.k = "str" /\ PyFloatStr(raw.s) # FNone
            found == FirstDecimal(RemoveCommas(nuser))
        IN  nres.r.amount = IF coercible THEN PyFloat(raw)
                            ELSE IF found = <<>> THEN FNone
                            ELSE PyFloatStr(found)

\* no amount in the record and the user text 300: the amount is 300.0
C8_Witness ==
    /\ nres.done
    /\ nres.r.status = "ok"
    /\ DictGet(ninfo, K_amount, JStr(<<"absent">>)) = JStr(<<"absent">>)
    /\ nuser = <<"3", "0", "0">>
    /\ nres.r.amount = FNum(300 * Unit)

\* C9: the row stored for a recorded message has the trimmed category of the
\* record, and other when the category is absent or empty after trimming; its
\* description is the trimmed description, and empty when absent.
C9_CategoryDefault ==
    (outcome = "Recorded") =>
        LET cat == DictGet(TurnInfo, K_category, JStr(<<>>))
            desc == DictGet(TurnInfo, K_description, JStr(<<>>))
            row == df[Len(df)]
        IN  /\ row.Category = IF Strip(cat.s) = <<>> THEN S_other ELSE Strip(cat.s)
            /\ row.Description = Strip(desc.s)

\* C10: the balance shown is total income minus total expense over the log,
\* and is the Balance of the last row of the log when the log is not empty.
C10_BalanceIsIncomeMinusExpense ==
    /\ sidebar.balance = FNum(SumAmount(df, S_income) - SumAmount(df, S_expense))
    /\ df # <<>> => sidebar.balance = df[Len(df)].Balance

====
